---- MODULE Spec2Model ----
(***************************************************************************)
(* Model of scrape_videos.py: a main thread that enqueues page indices,    *)
(* starts NUM_THREADS worker threads, joins them, merges the scraped       *)
(* records into the previously saved data and saves the result; and the    *)
(* workers, which dequeue page indices, fetch and parse each page, append  *)
(* its records to all_video_data under data_lock and set stop_scraping     *)
(* when a page has no listing blocks.                                      *)
(***************************************************************************)
EXTENDS Integers, Sequences, FiniteSets, TLC

\* ---------------------------------------------------------------- bounds
\* config['NUM_THREADS']: the number of worker threads main starts.
NUM_THREADS == 2
\* main's max_pages (1000 in the source), scaled down.
max_pages == 2

Workers == 1..NUM_THREADS
\* The main thread, as an owner of data_lock.
MainThread == NUM_THREADS + 1
Pages == 1..max_pages

\* ------------------------------------------------------- the environment
\* Post ids: strings of decimal digits ("9", "10"), as sequences of digits.
Ids == {<<9>>, <<1, 0>>}
Links == {"a", "b"}
Views == {1, 2}
\* A listing block as the parser sees it: post_id <<>> stands for a block with
\* no 'post-<id>' class (or an empty id), bad for a block whose processing
\* raises (e.g. int() of a malformed count).
NoIdItem == [post_id |-> <<>>, link |-> "a", views |-> 1, bad |-> FALSE]
BadItem == [post_id |-> <<9>>, link |-> "a", views |-> 1, bad |-> TRUE]
GoodItems == {[post_id |-> <<9>>, link |-> "a", views |-> 2, bad |-> FALSE],
              [post_id |-> <<1, 0>>, link |-> "b", views |-> 1, bad |-> FALSE]}
RawItems == GoodItems \cup {NoIdItem, BadItem}

RECURSIVE SeqsUpTo(_, _)
SeqsUpTo(S, n) ==
    IF n = 0 THEN {<<>>}
    ELSE LET shorter == SeqsUpTo(S, n - 1)
         IN  shorter \cup {Append(s, x) : s \in {t \in shorter : Len(t) = n - 1}, x \in S}

\* The non-empty results of soup.find_all('div', class_='item cf'): a page
\* of one good block, a page of two good blocks, and a page whose two blocks
\* are both skipped.
OneBlockPage ==
    <<[post_id |-> <<9>>, link |-> "a", views |-> 2, bad |-> FALSE]>>
TwoBlockPage ==
    <<[post_id |-> <<1, 0>>, link |-> "b", views |-> 1, bad |-> FALSE],
      [post_id |-> <<9>>, link |-> "a", views |-> 2, bad |-> FALSE]>>
SkippedPage == <<NoIdItem, BadItem>>
ItemLists == {OneBlockPage, TwoBlockPage, SkippedPage}

\* What load_existing_data can return in a crawl: no file, or the record of
\* an earlier run.
ExistingChoices ==
    {<<>>, <<[page |-> 1, id |-> <<9>>, link |-> "a", views |-> 1]>>}

\* The records the merge is checked on, and the lengths of its two inputs.
MaxExisting == 2
MaxScraped == 2
MergeRecords == [page : {1}, id : Ids, link : Links, views : Views]

\* The records save_data is checked on, and the length of its input.
MaxSaved == 3
SaveRecords == [page : {1, 2}, id : Ids, link : {"a"}, views : {1}]

VARIABLES
    mpc,            \* main's position
    existing_data,  \* main's existing_data
    page_num,       \* main's page_num
    ti,             \* main's position in the start loop and the join loop
    unique_data,    \* main's unique_data
    data_txt,       \* the contents of DATA_TXT after save_data
    temp_csv,       \* the rows of TEMP_CSV
    csv_written,    \* whether this run has written TEMP_CSV
    sheet,          \* the spreadsheet push: "none", "updated" or "failed"
    page_queue,     \* the global page_queue
    all_video_data, \* the global all_video_data
    data_lock,      \* owner of the global data_lock: 0 free, MainThread, or a worker
    stop_scraping,  \* the global stop_scraping
    wpc,            \* each worker's position
    w_page,         \* each worker's page_num (0 outside scrape_page)
    page_data,      \* each worker's page_data
    outcome,        \* history: what the fetch of each page gave
    stop_writers,   \* history: <<worker, page>> of every write of stop_scraping
    late_gets       \* history: each worker's dequeues made with the flag set

vars == <<mpc, existing_data, page_num, ti, unique_data, data_txt, temp_csv,
          csv_written, sheet, page_queue,
          all_video_data, data_lock, stop_scraping, wpc, w_page, page_data,
          outcome, stop_writers, late_gets>>

fileVars == <<data_txt, temp_csv, csv_written, sheet>>
mainVars == <<mpc, existing_data, page_num, ti, unique_data, fileVars>>
histVars == <<outcome, stop_writers, late_gets>>

\* ------------------------------------------------------- pure functions
\* The loop of scrape_page over items: blocks without an id are skipped,
\* blocks whose processing raises are skipped, the others become records.
Extract(items, p) ==
    LET kept == SelectSeq(items, LAMBDA it : it.post_id # <<>> /\ ~it.bad)
    IN  [i \in 1..Len(kept) |->
            [page |-> p, id |-> kept[i].post_id, link |-> kept[i].link,
             views |-> kept[i].views]]

SeqRange(s) == {s[i] : i \in 1..Len(s)}
existing_ids(data) == {item.id : item \in SeqRange(data)}
existing_links(data) == {item.link : item \in SeqRange(data)}

\* Mutant: keyed override, the scraped record replaces the stored one.
MergeOverride(existing, scraped) ==
    SelectSeq(existing, LAMBDA item : item.id \notin existing_ids(scraped))
        \o scraped

\* Mutant: the filter tests new_ids (the ids just scraped) instead of
\* existing_ids.
MergeNewIds(existing, scraped) ==
    existing \o SelectSeq(scraped,
        LAMBDA item : item.id \notin existing_ids(scraped)
                      /\ item.link \notin existing_links(existing))

\* Mutant: the filter is forgotten, unique_data.extend(all_video_data).
MergeExtendAll(existing, scraped) == existing \o scraped

\* Mutant: unique_data starts empty instead of as a copy of existing_data.
MergeScrapedOnly(existing, scraped) ==
    SelectSeq(scraped,
        LAMBDA item : item.id \notin existing_ids(existing)
                      /\ item.link \notin existing_links(existing))

\* main's merge: the existing records, then the scraped records whose id and
\* link are both new.
Merge(existing, scraped) ==
    existing \o SelectSeq(scraped,
        LAMBDA item : item.id \notin existing_ids(existing)
                      /\ item.link \notin existing_links(existing))

\* ------------------------------------------------------------ initial state
Init ==
    /\ mpc = "enqueue"
    /\ existing_data \in ExistingChoices
    /\ page_num = 1
    /\ ti = 0
    /\ unique_data = <<>>
    /\ data_txt = <<>>
    /\ temp_csv = <<>>
    /\ csv_written = FALSE
    /\ sheet = "none"
    /\ page_queue = <<>>
    /\ all_video_data = <<>>
    /\ data_lock = 0
    /\ stop_scraping = FALSE
    /\ wpc = [w \in Workers |-> "idle"]
    /\ w_page = [w \in Workers |-> 0]
    /\ page_data = [w \in Workers |-> <<>>]
    /\ outcome = [p \in Pages |-> "none"]
    /\ stop_writers = {}
    /\ late_gets = [w \in Workers |-> 0]

\* ------------------------------------------------------------------ main
\* Mutant: the loop stops one page early (page_num < max_pages).
EnqueueOneShort ==
    /\ mpc = "enqueue"
    /\ IF page_num < max_pages /\ ~stop_scraping
       THEN /\ page_queue' = Append(page_queue, page_num)
            /\ page_num' = page_num + 1
            /\ UNCHANGED mpc
       ELSE /\ mpc' = "start"
            /\ UNCHANGED <<page_queue, page_num>>
    /\ UNCHANGED <<existing_data, ti, unique_data, fileVars, all_video_data,
                   data_lock, stop_scraping, wpc, w_page, page_data, histVars>>

\* while page_num <= max_pages and not stop_scraping: page_queue.put(page_num)
Enqueue ==
    /\ mpc = "enqueue"
    /\ IF page_num <= max_pages /\ ~stop_scraping
       THEN /\ page_queue' = Append(page_queue, page_num)
            /\ page_num' = page_num + 1
            /\ UNCHANGED mpc
       ELSE /\ mpc' = "start"
            /\ UNCHANGED <<page_queue, page_num>>
    /\ UNCHANGED <<existing_data, ti, unique_data, fileVars, all_video_data,
                   data_lock, stop_scraping, wpc, w_page, page_data, histVars>>

\* for i in range(NUM_THREADS): t.start()
StartThread ==
    /\ mpc = "start"
    /\ IF ti < NUM_THREADS
       THEN /\ wpc' = [wpc EXCEPT ![ti + 1] = "loop"]
            /\ ti' = ti + 1
            /\ UNCHANGED mpc
       ELSE /\ mpc' = "join"
            /\ ti' = 0
            /\ UNCHANGED wpc
    /\ UNCHANGED <<existing_data, page_num, unique_data, fileVars, page_queue,
                   all_video_data, data_lock, stop_scraping, w_page, page_data,
                   histVars>>

\* Mutant: join returns without waiting (a join with a timeout).
JoinNoWait(w) == TRUE

\* t.join() returns once thread t has terminated.
Joinable(w) == wpc[w] = "exit"

\* for t in threads: t.join()
JoinThread ==
    /\ mpc = "join"
    /\ IF ti < NUM_THREADS
       THEN /\ Joinable(ti + 1)
            /\ ti' = ti + 1
            /\ UNCHANGED mpc
       ELSE /\ mpc' = "lock_merge"
            /\ UNCHANGED ti
    /\ UNCHANGED <<existing_data, page_num, unique_data, fileVars, page_queue,
                   all_video_data, data_lock, stop_scraping, wpc, w_page,
                   page_data, histVars>>

\* with data_lock: (main)
MainLock ==
    /\ mpc = "lock_merge"
    /\ data_lock = 0
    /\ data_lock' = MainThread
    /\ mpc' = "merge"
    /\ UNCHANGED <<existing_data, page_num, ti, unique_data, fileVars,
                   page_queue, all_video_data, stop_scraping, wpc, w_page,
                   page_data, histVars>>

\* the body of main's with block, and the release of the lock
MainMerge ==
    /\ mpc = "merge"
    /\ unique_data' = Merge(existing_data, all_video_data)
    /\ data_lock' = 0
    /\ mpc' = "save"
    /\ UNCHANGED <<existing_data, page_num, ti, fileVars, page_queue,
                   all_video_data, stop_scraping, wpc, w_page, page_data,
                   histVars>>

\* pd.to_numeric(df['id']): the number a string of digits spells.
RECURSIVE ToNumeric(_)
ToNumeric(str) ==
    IF str = <<>> THEN 0
    ELSE ToNumeric(SubSeq(str, 1, Len(str) - 1)) * 10 + str[Len(str)]

\* The decimal digits of a number, and the order of strings.
RECURSIVE DecStr(_)
DecStr(n) == IF n < 10 THEN <<n>> ELSE Append(DecStr(n \div 10), n % 10)

RECURSIVE LexLess(_, _)
LexLess(a, b) ==
    IF b = <<>> THEN FALSE
    ELSE IF a = <<>> THEN TRUE
    ELSE IF a[1] # b[1] THEN a[1] < b[1]
    ELSE LexLess(Tail(a), Tail(b))

\* Mutant: the ids are compared as strings (the to_numeric is left out).
RowBeforeLexical(a, b) ==
    \/ a.page < b.page
    \/ a.page = b.page /\ LexLess(DecStr(b.id), DecStr(a.id))

\* sort_values(by=['page', 'id'], ascending=[True, False]): row a goes
\* before row b.
RowBefore(a, b) ==
    \/ a.page < b.page
    \/ a.page = b.page /\ a.id > b.id

\* The sort, stable: RowRank is the number of rows that go before row i, the
\* rows of equal key keeping their order.
RowRank(rows, i) ==
    Cardinality({j \in 1..Len(rows) :
                    \/ RowBefore(rows[j], rows[i])
                    \/ ~RowBefore(rows[i], rows[j]) /\ j < i})

SortRows(rows) ==
    [k \in 1..Len(rows) |->
        rows[CHOOSE i \in 1..Len(rows) : RowRank(rows, i) = k - 1]]

\* The DataFrame of save_data: the records with a numeric id, sorted.
CsvRows(data) ==
    SortRows([i \in 1..Len(data) |->
                 [data[i] EXCEPT !.id = ToNumeric(data[i].id)]])

\* save_data(unique_data) up to the CSV: json.dump(data, f) writes the list
\* as it is; the DataFrame is sorted and written to TEMP_CSV unless it is
\* empty, and only then is the spreadsheet pushed.
SaveData ==
    /\ mpc = "save"
    /\ data_txt' = unique_data
    /\ IF unique_data = <<>>
       THEN /\ mpc' = "done"
            /\ UNCHANGED <<temp_csv, csv_written>>
       ELSE /\ temp_csv' = CsvRows(unique_data)
            /\ csv_written' = TRUE
            /\ mpc' = "publish"
    /\ UNCHANGED <<existing_data, page_num, ti, unique_data, sheet, page_queue,
                   all_video_data, data_lock, stop_scraping, wpc, w_page,
                   page_data, histVars>>

\* The spreadsheet is cleared and updated with the header and the rows.
PublishOk ==
    /\ mpc = "publish"
    /\ sheet' = "updated"
    /\ mpc' = "done"
    /\ UNCHANGED <<existing_data, page_num, ti, unique_data, data_txt,
                   temp_csv, csv_written, page_queue, all_video_data,
                   data_lock, stop_scraping, wpc, w_page, page_data, histVars>>

\* Mutant: the failure of the push leaves save_data and main as an exception.
PublishFailRaises ==
    /\ mpc = "publish"
    /\ sheet' = "failed"
    /\ mpc' = "error"
    /\ UNCHANGED <<existing_data, page_num, ti, unique_data, data_txt,
                   temp_csv, csv_written, page_queue, all_video_data,
                   data_lock, stop_scraping, wpc, w_page, page_data, histVars>>

\* The credentials, the authorisation or the update raises: the inner except
\* clause logs it and save_data returns.
PublishFail ==
    /\ mpc = "publish"
    /\ sheet' = "failed"
    /\ mpc' = "done"
    /\ UNCHANGED <<existing_data, page_num, ti, unique_data, data_txt,
                   temp_csv, csv_written, page_queue, all_video_data,
                   data_lock, stop_scraping, wpc, w_page, page_data, histVars>>

\* --------------------------------------------------------------- workers
\* Mutant: while True, the flag is not tested.
LoopNoCheck(w) ==
    /\ wpc[w] = "loop"
    /\ wpc' = [wpc EXCEPT ![w] = "get"]
    /\ UNCHANGED <<mainVars, page_queue, all_video_data, data_lock,
                   stop_scraping, w_page, page_data, histVars>>

\* while not stop_scraping:
LoopCheck(w) ==
    /\ wpc[w] = "loop"
    /\ wpc' = [wpc EXCEPT ![w] = IF stop_scraping THEN "exit" ELSE "get"]
    /\ UNCHANGED <<mainVars, page_queue, all_video_data, data_lock,
                   stop_scraping, w_page, page_data, histVars>>

\* Mutant: page_queue.get() in place of get_nowait(): an empty queue blocks.
GetBlocking(w) ==
    /\ wpc[w] = "get"
    /\ page_queue # <<>>
    /\ w_page' = [w_page EXCEPT ![w] = Head(page_queue)]
    /\ page_queue' = Tail(page_queue)
    /\ wpc' = [wpc EXCEPT ![w] = "request"]
    /\ late_gets' = [late_gets EXCEPT ![w] =
                        IF stop_scraping THEN @ + 1 ELSE @]
    /\ UNCHANGED <<mainVars, all_video_data, data_lock, stop_scraping,
                   page_data, outcome, stop_writers>>

\* Mutant: the head of the queue is read but not removed.
GetNoPop(w) ==
    /\ wpc[w] = "get"
    /\ IF page_queue = <<>>
       THEN /\ wpc' = [wpc EXCEPT ![w] = "exit"]
            /\ UNCHANGED <<w_page, late_gets>>
       ELSE /\ w_page' = [w_page EXCEPT ![w] = Head(page_queue)]
            /\ wpc' = [wpc EXCEPT ![w] = "request"]
            /\ late_gets' = [late_gets EXCEPT ![w] =
                                IF stop_scraping THEN @ + 1 ELSE @]
    /\ UNCHANGED <<mainVars, page_queue, all_video_data, data_lock,
                   stop_scraping, page_data, outcome, stop_writers>>

\* page_num = page_queue.get_nowait(); queue.Empty breaks out of the loop
GetNowait(w) ==
    /\ wpc[w] = "get"
    /\ IF page_queue = <<>>
       THEN /\ wpc' = [wpc EXCEPT ![w] = "exit"]
            /\ UNCHANGED <<page_queue, w_page, late_gets>>
       ELSE /\ w_page' = [w_page EXCEPT ![w] = Head(page_queue)]
            /\ page_queue' = Tail(page_queue)
            /\ wpc' = [wpc EXCEPT ![w] = "request"]
            /\ late_gets' = [late_gets EXCEPT ![w] =
                                IF stop_scraping THEN @ + 1 ELSE @]
    /\ UNCHANGED <<mainVars, all_video_data, data_lock, stop_scraping,
                   page_data, outcome, stop_writers>>

\* Mutant: a failed fetch is taken for the end of the catalog.
FetchErrorStops(w) ==
    /\ wpc[w] = "request"
    /\ outcome' = [outcome EXCEPT ![w_page[w]] = "error"]
    /\ stop_scraping' = TRUE
    /\ stop_writers' = stop_writers \cup {<<w, w_page[w]>>}
    /\ wpc' = [wpc EXCEPT ![w] = "loop"]
    /\ w_page' = [w_page EXCEPT ![w] = 0]
    /\ UNCHANGED <<mainVars, page_queue, all_video_data, data_lock, page_data,
                   late_gets>>

\* Mutant: the exception of a failed fetch ends the worker thread.
FetchErrorKills(w) ==
    /\ wpc[w] = "request"
    /\ outcome' = [outcome EXCEPT ![w_page[w]] = "error"]
    /\ wpc' = [wpc EXCEPT ![w] = "exit"]
    /\ w_page' = [w_page EXCEPT ![w] = 0]
    /\ UNCHANGED <<mainVars, page_queue, all_video_data, data_lock,
                   stop_scraping, page_data, stop_writers, late_gets>>

\* Mutant: a failed fetch puts its page back on the queue (a retry).
FetchErrorRetry(w) ==
    /\ wpc[w] = "request"
    /\ outcome' = [outcome EXCEPT ![w_page[w]] = "error"]
    /\ page_queue' = Append(page_queue, w_page[w])
    /\ wpc' = [wpc EXCEPT ![w] = "loop"]
    /\ w_page' = [w_page EXCEPT ![w] = 0]
    /\ UNCHANGED <<mainVars, all_video_data, data_lock, stop_scraping,
                   page_data, stop_writers, late_gets>>

\* requests.get or raise_for_status raises: the except clause of scrape_page
\* logs it, scrape_page returns and the worker calls task_done.
FetchError(w) ==
    /\ wpc[w] = "request"
    /\ outcome' = [outcome EXCEPT ![w_page[w]] = "error"]
    /\ wpc' = [wpc EXCEPT ![w] = "loop"]
    /\ w_page' = [w_page EXCEPT ![w] = 0]
    /\ UNCHANGED <<mainVars, page_queue, all_video_data, data_lock,
                   stop_scraping, page_data, stop_writers, late_gets>>

\* Mutant: a page without listing blocks returns without setting the flag.
FetchEmptyNoStop(w) ==
    /\ wpc[w] = "request"
    /\ outcome' = [outcome EXCEPT ![w_page[w]] = "noitems"]
    /\ wpc' = [wpc EXCEPT ![w] = "loop"]
    /\ w_page' = [w_page EXCEPT ![w] = 0]
    /\ UNCHANGED <<mainVars, page_queue, all_video_data, data_lock,
                   stop_scraping, page_data, stop_writers, late_gets>>

\* The page is fetched and holds no listing block: if not items:
FetchEmpty(w) ==
    /\ wpc[w] = "request"
    /\ outcome' = [outcome EXCEPT ![w_page[w]] = "noitems"]
    /\ wpc' = [wpc EXCEPT ![w] = "lock_stop"]
    /\ UNCHANGED <<mainVars, page_queue, all_video_data, data_lock,
                   stop_scraping, w_page, page_data, stop_writers, late_gets>>

\* The page is fetched and holds listing blocks: the loop over items
FetchItems(w) ==
    /\ wpc[w] = "request"
    /\ \E items \in ItemLists :
          LET recs == Extract(items, w_page[w])
          IN  /\ page_data' = [page_data EXCEPT ![w] = recs]
              /\ outcome' = [outcome EXCEPT ![w_page[w]] =
                                IF recs = <<>> THEN "norecords" ELSE "records"]
    /\ wpc' = [wpc EXCEPT ![w] = "lock_data"]
    /\ UNCHANGED <<mainVars, page_queue, all_video_data, data_lock,
                   stop_scraping, w_page, stop_writers, late_gets>>

\* with data_lock: (before stop_scraping = True)
LockStop(w) ==
    /\ wpc[w] = "lock_stop"
    /\ data_lock = 0
    /\ data_lock' = w
    /\ wpc' = [wpc EXCEPT ![w] = "set_stop"]
    /\ UNCHANGED <<mainVars, page_queue, all_video_data, stop_scraping,
                   w_page, page_data, histVars>>

\* stop_scraping = True; release; return; task_done
SetStop(w) ==
    /\ wpc[w] = "set_stop"
    /\ stop_scraping' = TRUE
    /\ stop_writers' = stop_writers \cup {<<w, w_page[w]>>}
    /\ data_lock' = 0
    /\ wpc' = [wpc EXCEPT ![w] = "loop"]
    /\ w_page' = [w_page EXCEPT ![w] = 0]
    /\ UNCHANGED <<mainVars, page_queue, all_video_data, page_data, outcome,
                   late_gets>>

\* Mutant: the extend is not inside a with data_lock block.
LockDataSkipped(w) ==
    /\ wpc[w] = "lock_data"
    /\ wpc' = [wpc EXCEPT ![w] = "extend"]
    /\ UNCHANGED <<mainVars, page_queue, all_video_data, data_lock,
                   stop_scraping, w_page, page_data, histVars>>

\* with data_lock: (before all_video_data.extend)
LockData(w) ==
    /\ wpc[w] = "lock_data"
    /\ data_lock = 0
    /\ data_lock' = w
    /\ wpc' = [wpc EXCEPT ![w] = "extend"]
    /\ UNCHANGED <<mainVars, page_queue, all_video_data, stop_scraping,
                   w_page, page_data, histVars>>

\* Mutant: the records of a page are dropped when the flag is already set.
ExtendUnlessStopped(w) ==
    /\ wpc[w] = "extend"
    /\ all_video_data' = IF stop_scraping THEN all_video_data
                         ELSE all_video_data \o page_data[w]
    /\ data_lock' = 0
    /\ wpc' = [wpc EXCEPT ![w] = "sleep"]
    /\ UNCHANGED <<mainVars, page_queue, stop_scraping, w_page, page_data,
                   histVars>>

\* Mutant: a page with records clears the flag (stop_scraping = not page_data).
ExtendClearsStop(w) ==
    /\ wpc[w] = "extend"
    /\ all_video_data' = all_video_data \o page_data[w]
    /\ stop_scraping' = (page_data[w] = <<>>)
    /\ data_lock' = 0
    /\ wpc' = [wpc EXCEPT ![w] = "sleep"]
    /\ UNCHANGED <<mainVars, page_queue, w_page, page_data, histVars>>

\* all_video_data.extend(page_data); release
Extend(w) ==
    /\ wpc[w] = "extend"
    /\ all_video_data' = all_video_data \o page_data[w]
    /\ data_lock' = 0
    /\ wpc' = [wpc EXCEPT ![w] = "sleep"]
    /\ UNCHANGED <<mainVars, page_queue, stop_scraping, w_page, page_data,
                   histVars>>

\* time.sleep(DETAIL_DELAY); return; task_done
Sleep(w) ==
    /\ wpc[w] = "sleep"
    /\ wpc' = [wpc EXCEPT ![w] = "loop"]
    /\ w_page' = [w_page EXCEPT ![w] = 0]
    /\ page_data' = [page_data EXCEPT ![w] = <<>>]
    /\ UNCHANGED <<mainVars, page_queue, all_video_data, data_lock,
                   stop_scraping, histVars>>

Next ==
    \/ Enqueue
    \/ StartThread
    \/ JoinThread
    \/ MainLock
    \/ MainMerge
    \/ SaveData
    \/ PublishOk
    \/ PublishFail
    \/ \E w \in Workers : LoopCheck(w)
    \/ \E w \in Workers : GetNowait(w)
    \/ \E w \in Workers : FetchError(w)
    \/ \E w \in Workers : FetchEmpty(w)
    \/ \E w \in Workers : FetchItems(w)
    \/ \E w \in Workers : LockStop(w)
    \/ \E w \in Workers : SetStop(w)
    \/ \E w \in Workers : LockData(w)
    \/ \E w \in Workers : Extend(w)
    \/ \E w \in Workers : Sleep(w)

Spec == Init /\ [][Next]_vars

\* The steps of the main thread and of one worker thread, and the crawl with
\* every thread scheduled fairly.
MainNext ==
    \/ Enqueue
    \/ StartThread
    \/ JoinThread
    \/ MainLock
    \/ MainMerge
    \/ SaveData
    \/ PublishOk
    \/ PublishFail

WorkerNext(w) ==
    \/ LoopCheck(w)
    \/ GetNowait(w)
    \/ FetchError(w)
    \/ FetchEmpty(w)
    \/ FetchItems(w)
    \/ LockStop(w)
    \/ SetStop(w)
    \/ LockData(w)
    \/ Extend(w)
    \/ Sleep(w)

FairSpec ==
    /\ Spec
    /\ WF_vars(MainNext)
    /\ \A w \in Workers : WF_vars(WorkerNext(w))

\* ------------------------------------------- the merge on bounded inputs
\* main at the merge, after the joins, with any loaded data and any
\* accumulated records.
MergeInit ==
    /\ mpc = "lock_merge"
    /\ existing_data \in SeqsUpTo(MergeRecords, MaxExisting)
    /\ all_video_data \in SeqsUpTo(MergeRecords, MaxScraped)
    /\ page_num = max_pages + 1
    /\ ti = NUM_THREADS
    /\ unique_data = <<>>
    /\ data_txt = <<>>
    /\ temp_csv = <<>>
    /\ csv_written = FALSE
    /\ sheet = "none"
    /\ page_queue = <<>>
    /\ data_lock = 0
    /\ stop_scraping = FALSE
    /\ wpc = [w \in Workers |-> "exit"]
    /\ w_page = [w \in Workers |-> 0]
    /\ page_data = [w \in Workers |-> <<>>]
    /\ outcome = [p \in Pages |-> "none"]
    /\ stop_writers = {}
    /\ late_gets = [w \in Workers |-> 0]

MergeNext ==
    \/ MainLock
    \/ MainMerge
    \/ SaveData
    \/ PublishOk
    \/ PublishFail

MergeSpec == MergeInit /\ [][MergeNext]_vars

\* ---------------------------------------- save_data on bounded inputs
\* main at the call of save_data, with any merged data (here the merge of
\* no loaded data and the accumulated records).
SaveInit ==
    /\ mpc = "save"
    /\ unique_data \in SeqsUpTo(SaveRecords, MaxSaved)
    /\ all_video_data = unique_data
    /\ existing_data = <<>>
    /\ page_num = max_pages + 1
    /\ ti = NUM_THREADS
    /\ data_txt = <<>>
    /\ temp_csv = <<>>
    /\ csv_written = FALSE
    /\ sheet = "none"
    /\ page_queue = <<>>
    /\ data_lock = 0
    /\ stop_scraping = FALSE
    /\ wpc = [w \in Workers |-> "exit"]
    /\ w_page = [w \in Workers |-> 0]
    /\ page_data = [w \in Workers |-> <<>>]
    /\ outcome = [p \in Pages |-> "none"]
    /\ stop_writers = {}
    /\ late_gets = [w \in Workers |-> 0]

SaveNext ==
    \/ SaveData
    \/ PublishOk
    \/ PublishFail

SaveSpec == SaveInit /\ [][SaveNext]_vars

\* ================================================================ claims
\* A page is finished once its fetch has an outcome and no worker is still
\* inside scrape_page for it.
Finished(p) == outcome[p] # "none" /\ \A w \in Workers : w_page[w] # p

WritersOf(p) == {x \in stop_writers : x[2] = p}
WritesBy(w) == {x \in stop_writers : x[1] = w}

\* C1: a page whose fetch fails never causes stop_scraping to be set: every
\* write of the flag is by a worker whose page was fetched successfully and
\* held no listing block (so produced no record), and the flag is true only
\* after such a write.
C1_FailedFetchNeverStops ==
    /\ \A x \in stop_writers : outcome[x[2]] = "noitems"
    /\ \A p \in Pages : outcome[p] = "error" => WritersOf(p) = {}
    /\ stop_scraping => stop_writers # {}

\* A page's fetch failed, its worker is back in its loop, and the flag is
\* still false.
C1_Witness ==
    \E p \in Pages : outcome[p] = "error" /\ Finished(p) /\ ~stop_scraping

\* C2 (as claimed): every finished page that was fetched and gave zero
\* records, whether it had no listing block or all its blocks were skipped,
\* had the flag set by its worker.
C2_ZeroRecordsSetsStop ==
    \A p \in Pages :
        (Finished(p) /\ outcome[p] \in {"noitems", "norecords"})
            => WritersOf(p) # {}

\* C2 (amended): every finished page that was fetched and held no listing
\* block had the flag set by its worker before the worker finished the page.
C2_NoItemsSetsStop ==
    \A p \in Pages :
        (Finished(p) /\ outcome[p] = "noitems")
            => (WritersOf(p) # {} /\ stop_scraping)

\* A page without listing blocks has been finished.
C2_Witness ==
    \E p \in Pages : Finished(p) /\ outcome[p] = "noitems"

\* C3: stop_scraping is monotonic: no step takes it from true to false.
C3_StopMonotonic == [][stop_scraping => stop_scraping']_vars

\* The flag was set while pages were being scraped and is still set when the
\* run is over.
C3_Witness == stop_scraping /\ mpc = "done" /\ Len(all_video_data) > 0

\* C4 (as claimed): at most one write of stop_scraping happens in a run.
C4_SetExactlyOnce == Cardinality(stop_writers) <= 1

\* C4 (amended): each worker writes stop_scraping at most once in a run, so
\* at most NUM_THREADS writes happen, all of them of the value true.
C4_OneWritePerWorker ==
    /\ \A w \in Workers : Cardinality(WritesBy(w)) <= 1
    /\ Cardinality(stop_writers) <= NUM_THREADS
    /\ stop_writers # {} => stop_scraping

\* Two workers have each written the flag.
C4_Witness ==
    \E v, w \in Workers : v # w /\ WritesBy(v) # {} /\ WritesBy(w) # {}

\* ----------------------------------------------------------- the planner
\* The "no-new-content" page limit of the specification's configuration; the
\* source has no such key.
ShallowRefreshLimit == 1
\* The number of page indices main has enqueued.
PlannedPages == page_num - 1
Page1Ids == {r.id : r \in {x \in SeqRange(all_video_data) : x.page = 1}}
Page1Scraped == Finished(1) /\ outcome[1] = "records"
NothingNewOnPage1 ==
    Page1Scraped /\ Page1Ids \subseteq existing_ids(existing_data)

\* C11 (as claimed): when every id of page 1 is in the loaded data, the
\* number of pages planned is the shallow-refresh limit; when one is not, it
\* is the ceiling max_pages.
C11_PlannerBranches ==
    (mpc # "enqueue" /\ Page1Scraped) =>
        PlannedPages = IF NothingNewOnPage1 THEN ShallowRefreshLimit
                       ELSE max_pages

\* C11 (amended): the number of pages planned is the ceiling max_pages
\* whether or not page 1 holds an id that the loaded data lacks: every index
\* from 1 to max_pages is enqueued before any page is fetched.
C11_AlwaysFullCrawl ==
    mpc # "enqueue" =>
        /\ PlannedPages = max_pages
        /\ \A p \in Pages :
              \/ \E i \in 1..Len(page_queue) : page_queue[i] = p
              \/ \E w \in Workers : w_page[w] = p
              \/ outcome[p] # "none"

\* Page 1 held only ids of the loaded data, and the last page was fetched all
\* the same.
C11_Witness ==
    /\ NothingNewOnPage1
    /\ existing_data # <<>>
    /\ outcome[max_pages] # "none"

\* ------------------------------------------------------------ the merge
Merged == mpc \in {"save", "publish", "done"}
ScrapedIds == existing_ids(all_video_data)
WithId(data, id) == SelectSeq(data, LAMBDA item : item.id = id)
Last(s) == s[Len(s)]

\* C5 (as claimed): for every scraped id that the loaded data holds, the
\* merged data's entry for that id is the most recently scraped record.
C5_OverrideOnId ==
    Merged =>
        \A id \in ScrapedIds \cap existing_ids(existing_data) :
            \A r \in SeqRange(WithId(unique_data, id)) :
                r = Last(WithId(all_video_data, id))

\* C5 (amended): for every scraped id that the loaded data holds, the merged
\* data's entries for that id are the loaded ones, unchanged: the stored
\* record wins and the scraped one is dropped.
C5_StoredWinsOnId ==
    Merged =>
        \A id \in ScrapedIds \cap existing_ids(existing_data) :
            WithId(unique_data, id) = WithId(existing_data, id)

\* A scraped record has the id of a loaded record and differs from it.
C5_Witness ==
    /\ Merged
    /\ \E r \in SeqRange(all_video_data) :
          /\ r.id \in existing_ids(existing_data)
          /\ r \notin SeqRange(existing_data)

\* C6 (as claimed): every scraped record whose id the loaded data does not
\* hold is in the merged data, whatever its link.
C6_InsertWhenIdAbsent ==
    Merged =>
        \A r \in SeqRange(all_video_data) :
            r.id \notin existing_ids(existing_data)
                => r \in SeqRange(unique_data)

\* C6 (amended): every scraped record whose id and whose link the loaded data
\* does not hold is in the merged data.
C6_InsertWhenIdAndLinkAbsent ==
    Merged =>
        \A r \in SeqRange(all_video_data) :
            (r.id \notin existing_ids(existing_data)
             /\ r.link \notin existing_links(existing_data))
                => r \in SeqRange(unique_data)

\* A scraped record with a new id and a new link was merged into loaded data.
C6_Witness ==
    /\ Merged
    /\ existing_data # <<>>
    /\ \E r \in SeqRange(all_video_data) :
          /\ r.id \notin existing_ids(existing_data)
          /\ r.link \notin existing_links(existing_data)

UniqueIds(data) ==
    \A i, j \in 1..Len(data) : data[i].id = data[j].id => i = j

\* C7 (as claimed): when the loaded data has unique ids, the merged data
\* handed to save_data has at most one record per id.
C7_MergedIdsUnique ==
    (Merged /\ UniqueIds(existing_data)) => UniqueIds(unique_data)

\* C8: merging the scraped records into the merged data again changes
\* nothing.
C8_MergeIdempotent ==
    Merged => Merge(unique_data, all_video_data) = unique_data

\* The merge added a scraped record to loaded data.
C8_Witness ==
    /\ Merged
    /\ existing_data # <<>>
    /\ Len(unique_data) > Len(existing_data)

\* C20: the merge drops no loaded data: every id of the loaded data is an id
\* of the merged data, and the loaded records whose id was not scraped are in
\* the merged data unchanged, in their order, the only records with their id.
C20_MergeKeepsLoaded ==
    Merged =>
        /\ existing_ids(existing_data) \subseteq existing_ids(unique_data)
        /\ \A r \in SeqRange(existing_data) : r \in SeqRange(unique_data)
        /\ \A id \in existing_ids(existing_data) \ ScrapedIds :
              WithId(unique_data, id) = WithId(existing_data, id)

\* Loaded data with an id that was not scraped went through a merge that
\* added a scraped record.
C20_Witness ==
    /\ Merged
    /\ existing_ids(existing_data) \ ScrapedIds # {}
    /\ Len(unique_data) > Len(existing_data)

\* ------------------------------------------------------- the join barrier
Running(w) == wpc[w] \notin {"idle", "exit"}

\* C9: main is past its joins only when every worker has terminated, pages
\* are enqueued only while no worker runs, and the merged data is the merge
\* of the accumulator as it is at the end (nothing is appended once the merge
\* has begun).
C9_JoinBarrier ==
    /\ mpc \in {"lock_merge", "merge", "save", "publish", "done"}
          => \A w \in Workers : wpc[w] = "exit"
    /\ (\E w \in Workers : Running(w)) => mpc \in {"start", "join"}
    /\ Merged => unique_data = Merge(existing_data, all_video_data)

\* The run is over and records appended by two pages' workers were merged.
C9_Witness ==
    /\ mpc = "done"
    /\ Len(all_video_data) >= 2
    /\ Len(unique_data) > Len(existing_data)

\* C10: once stop_scraping is set, no page index is enqueued: main's page_num
\* does not advance and page_queue only shrinks.
C10_NoEnqueueAfterStop ==
    [][stop_scraping =>
          /\ page_num' = page_num
          /\ Len(page_queue') <= Len(page_queue)
          /\ page_queue' = SubSeq(page_queue,
                                  Len(page_queue) - Len(page_queue') + 1,
                                  Len(page_queue))]_vars

\* The run is over with the flag set and page indices left in the queue.
C10_Witness == stop_scraping /\ mpc = "done" /\ page_queue # <<>>

\* ------------------------------------------------------------ save_data
SaveDone == mpc \in {"publish", "done"}
\* The sort keys of the rows: the page and the id as a number.
TxtKeys == [i \in 1..Len(data_txt) |->
               <<data_txt[i].page, ToNumeric(data_txt[i].id)>>]
CsvKeys == [i \in 1..Len(temp_csv) |-> <<temp_csv[i].page, temp_csv[i].id>>]
KeysOrdered(k) ==
    \A i, j \in 1..Len(k) :
        i < j => \/ k[i][1] < k[j][1]
                 \/ k[i][1] = k[j][1] /\ k[i][2] >= k[j][2]
Count(rows, r) == Cardinality({i \in 1..Len(rows) : rows[i] = r})
\* rows holds the records of data, each as often, with the id as a number.
SameRows(rows, data) ==
    LET numeric == [i \in 1..Len(data) |->
                       [data[i] EXCEPT !.id = ToNumeric(data[i].id)]]
    IN  /\ Len(rows) = Len(data)
        /\ \A r \in SeqRange(numeric) : Count(rows, r) = Count(numeric, r)

\* C12 (as claimed): the primary store and the tabular export are both
\* ordered by page ascending and, within a page, by numeric id descending.
C12_StoreAndExportSorted ==
    SaveDone => KeysOrdered(TxtKeys) /\ KeysOrdered(CsvKeys)

\* C12 (amended): the tabular export holds the merged records ordered by page
\* ascending and, within a page, by numeric id descending; the primary store
\* holds them in the order of the merge.
C12_ExportSortedStoreInMergeOrder ==
    SaveDone =>
        /\ data_txt = unique_data
        /\ csv_written => (KeysOrdered(CsvKeys) /\ SameRows(temp_csv, unique_data))

\* An unsorted dataset with the ids "9" and "10" on one page, 9 first, has
\* been saved.
C12_Witness ==
    /\ SaveDone
    /\ csv_written
    /\ ~KeysOrdered(TxtKeys)
    /\ \E i, j \in 1..Len(unique_data) :
          /\ i < j
          /\ unique_data[i].page = unique_data[j].page
          /\ unique_data[i].id = <<9>>
          /\ unique_data[j].id = <<1, 0>>

PageBlock(p) == SelectSeq(all_video_data, LAMBDA r : r.page = p)
AllJoined == mpc \in {"lock_merge", "merge", "save", "publish", "done"}

\* C13: a fetch that raises ends neither its worker nor another one: the
\* worker goes back to its loop test, every other worker, the queue, the flag
\* and the accumulator are as they were, and a worker only ever exits with
\* the flag set or the queue empty.
C13_FaultIsolation ==
    [][
       \A w \in Workers :
          /\ (wpc[w] = "request" /\ outcome'[w_page[w]] = "error") =>
                /\ wpc'[w] = "loop"
                /\ \A v \in Workers \ {w} :
                      /\ wpc'[v] = wpc[v]
                      /\ w_page'[v] = w_page[v]
                      /\ page_data'[v] = page_data[v]
                /\ page_queue' = page_queue
                /\ stop_scraping' = stop_scraping
                /\ all_video_data' = all_video_data
          /\ (wpc[w] # "exit" /\ wpc'[w] = "exit") =>
                (stop_scraping \/ page_queue = <<>>)
      ]_vars

\* The only worker started so far failed to fetch page 1 and is now fetching
\* page 2.
C13_Witness ==
    /\ outcome[1] = "error"
    /\ wpc[1] = "request"
    /\ w_page[1] = 2
    /\ \A w \in Workers \ {1} : wpc[w] = "idle"

\* C15: a worker inside the request or the sleep does not own data_lock, and
\* every step that writes the accumulator or the flag is taken by the worker
\* that owns data_lock.
C15_NetworkOutsideLock ==
    [][
       /\ \A w \in Workers :
             (wpc[w] \in {"request", "sleep"} => data_lock # w)
       /\ \A w \in Workers :
             (wpc'[w] \in {"request", "sleep"} => data_lock' # w)
       /\ (\/ all_video_data' # all_video_data
           \/ stop_scraping' # stop_scraping
           \/ stop_writers' # stop_writers) =>
             \E w \in Workers :
                data_lock = w /\ wpc[w] \in {"set_stop", "extend"}
      ]_vars

\* One worker owns the lock for its extend while another is inside a request.
C15_Witness ==
    \E v, w \in Workers :
        /\ wpc[v] = "extend" /\ data_lock = v /\ page_data[v] # <<>>
        /\ wpc[w] = "request"

\* C16: a page index is in the queue, with one worker, or done, never two of
\* these and never with two workers, so no page is fetched twice; and the
\* records of a page are in the accumulator all together or not at all: none
\* before its worker's extend, all of page_data, side by side, after it.
C16_PageHandledOnce ==
    /\ \A i, j \in 1..Len(page_queue) :
          page_queue[i] = page_queue[j] => i = j
    /\ \A i \in 1..Len(page_queue) :
          /\ outcome[page_queue[i]] = "none"
          /\ \A w \in Workers : w_page[w] # page_queue[i]
    /\ \A v, w \in Workers :
          (w_page[v] # 0 /\ w_page[v] = w_page[w]) => v = w
    /\ \A w \in Workers :
          /\ wpc[w] = "request" => outcome[w_page[w]] = "none"
          /\ wpc[w] \in {"lock_data", "extend"} => PageBlock(w_page[w]) = <<>>
          /\ wpc[w] = "sleep" => PageBlock(w_page[w]) = page_data[w]
    /\ \A p \in Pages : outcome[p] # "records" => PageBlock(p) = <<>>
    /\ \A i, j, k \in 1..Len(all_video_data) :
          (i < k /\ k < j /\ all_video_data[i].page = all_video_data[j].page)
              => all_video_data[k].page = all_video_data[i].page

\* A worker has just appended the two records of its page after the records
\* of another page.
C16_Witness ==
    \E w \in Workers :
        /\ wpc[w] = "sleep"
        /\ Len(page_data[w]) = 2
        /\ Len(all_video_data) >= 3

SetterPages == {x[2] : x \in stop_writers}
LowestSetter == CHOOSE p \in SetterPages : \A q \in SetterPages : p <= q

\* C17: once the workers are joined, every page below the lowest page that
\* set the flag has been fetched, and those that gave records have their
\* records in the accumulator.
C17_NoPageLostToStop ==
    (AllJoined /\ SetterPages # {}) =>
        \A p \in Pages :
            p < LowestSetter =>
                /\ outcome[p] # "none"
                /\ outcome[p] = "records" => PageBlock(p) # <<>>

\* The workers are joined, the last page set the flag and every page before
\* it gave records.
C17_Witness ==
    /\ AllJoined
    /\ SetterPages = {max_pages}
    /\ \A p \in Pages : p < max_pages =>
          (outcome[p] = "records" /\ PageBlock(p) # <<>>)

LateWorkers == {w \in Workers : late_gets[w] > 0}

\* C18: with the flag set a worker dequeues at most one more page and does not
\* come back to the queue after it, at most NUM_THREADS - 1 workers do so,
\* and a worker whose fetch was in flight still appends its records.
C18_BoundedOverFetch ==
    /\ \A w \in Workers : late_gets[w] <= 1
    /\ \A w \in LateWorkers : wpc[w] # "get"
    /\ Cardinality(LateWorkers) <= NUM_THREADS - 1
    /\ \A w \in Workers :
          (stop_scraping /\ wpc[w] = "sleep")
              => \A r \in SeqRange(page_data[w]) : r \in SeqRange(all_video_data)

\* A worker that dequeued a page after the flag was set has appended that
\* page's records.
C18_Witness ==
    \E w \in Workers :
        /\ late_gets[w] = 1
        /\ stop_scraping
        /\ wpc[w] = "sleep"
        /\ page_data[w] # <<>>

\* C19: with every thread scheduled fairly and every request returning, the
\* workers all exit and main reaches the end of save_data.
C19_Terminates ==
    <>(mpc = "done" /\ data_txt = unique_data
       /\ \A w \in Workers : wpc[w] = "exit")

\* The run is over, a fetch failed and no page ever set the flag.
C19_Witness ==
    /\ mpc = "done"
    /\ ~stop_scraping
    /\ \E p \in Pages : outcome[p] = "error"
    /\ \E p \in Pages : outcome[p] = "records"

====
